---- MODULE Spec2Model ----
(***************************************************************************)
(* A model of the video-classroom application (meetp): the Classroom       *)
(* component's participant list and PeerJS wiring, the App/Lobby join      *)
(* flow, the screen-share track switching, the chat, the Whiteboard and    *)
(* the GeminiLiveService audio input.                                      *)
(*                                                                         *)
(* The module holds several specifications over one set of variables; each *)
(* specification drives one group of variables and leaves the others at    *)
(* their initial value:                                                    *)
(*   SpecRoom   a host and guests joining one room over PeerJS             *)
(*   SpecApp    one tab: lobby, join, AI toggle, participant list          *)
(*   SpecShare  the host's screen share and the calls' video senders       *)
(*   SpecChat   the chat of a joined tab, the private and the live session *)
(*   SpecBoard  the whiteboard of a joined tab, host or guest               *)
(*   SpecAudio  the microphone capture towards the live session            *)
(*   SpecMedia  useMediaStream and the resources a tab holds               *)
(*   SpecRoomId generateRoomId over the values of the random source        *)
(*   SpecBase64 bytesToBase64 and base64ToBytes over byte sequences        *)
(*   SpecLive   the live service under any calls and session callbacks      *)
(***************************************************************************)
EXTENDS Integers, Sequences, FiniteSets, TLC

\* ---------------------------------------------------------------- bounds
NumGuests == 2
MaxStreamEvents == 2
MaxPendingDisplay == 2
MaxLiveScreens == 3
MaxSessions == 2
MaxMessages == 3
MaxPeerMessages == 1
MaxQueries == 2
MaxInk == 2
MaxResizes == 2
MaxSnapshots == 3
MaxProcessors == 3
MaxJoins == 2
MaxDigits == 3
MaxBytes == 2
MaxSampleBytes == 4
MaxClosing == 2

\* Whiteboard.saveHistory keeps at most 20 snapshots.
HistoryCap == 20

\* ------------------------------------------------------------ identifiers
\* Participant ids.  The host's peer id is the fixed `gemini-class-host-<room>`;
\* a guest's peer id is the random id the PeerJS server hands out, here 1..NumGuests.
HostPeerId == 0
SelfId == -1
AiProfId == -2

Guests == 1..NumGuests
Clients == {HostPeerId} \cup Guests

IsAdminClient(c) == c = HostPeerId

\* ------------------------------------------------------- participant list
\* A Participant: id, role, isSelf, stream (non-null or not) and
\* permissions.canDraw (an absent permissions object reads as falsy).
Participant(id, role, isSelf, hasStream, canDraw) ==
    [id |-> id, role |-> role, isSelf |-> isSelf, stream |-> hasStream, canDraw |-> canDraw]

HasId(list, id) == \E i \in 1..Len(list) : list[i].id = id

CountId(list, id) == Cardinality({i \in 1..Len(list) : list[i].id = id})

CountRole(list, role) == Cardinality({i \in 1..Len(list) : list[i].role = role})

IsAi(p) == p.role = "ai"

NotAi(p) == p.role # "ai"

NotSelf(p) == ~p.isSelf

\* call.on('stream') on the guest's side: add the host unless already listed.
OnGuestCallStream(prev) ==
    IF HasId(prev, HostPeerId) THEN prev
    ELSE Append(prev, Participant(HostPeerId, "host", FALSE, TRUE, FALSE))

\* call.on('stream') on the answering side: add the caller unless already listed.
OnHostCallStream(prev, guestId) ==
    IF HasId(prev, guestId) THEN prev
    ELSE Append(prev, Participant(guestId, "participant", FALSE, TRUE, FALSE))

\* The activation effect's two branches on the participant list.
AddAiParticipant(prev) ==
    IF ~(\E i \in 1..Len(prev) : prev[i].role = "ai")
    THEN <<Participant(AiProfId, "ai", FALSE, FALSE, FALSE)>> \o prev
    ELSE prev

RemoveAiParticipant(prev) == SelectSeq(prev, NotAi)

\* A self setup that keeps only the real people.
SelfSetupDropsAi(prev, isAdmin, hasStream) ==
    SelectSeq(SelectSeq(prev, NotSelf), NotAi)
        \o <<Participant(SelfId, IF isAdmin THEN "host" ELSE "participant", TRUE, hasStream, isAdmin)>>

\* The "Initial Participants Setup (Self)" effect.
SelfSetup(prev, isAdmin, hasStream) ==
    LET others == SelectSeq(prev, NotSelf)
        ai == SelectSeq(others, IsAi)
        realPeople == SelectSeq(others, NotAi)
        selfParticipant ==
            Participant(SelfId, IF isAdmin THEN "host" ELSE "participant", TRUE, hasStream, isAdmin)
    IN  IF ai # <<>> THEN <<ai[1]>> \o realPeople \o <<selfParticipant>>
        ELSE realPeople \o <<selfParticipant>>

handleRemoveParticipant(prev, id) ==
    LET Keep(p) == p.id # id IN SelectSeq(prev, Keep)

handleUpdatePermissions(prev, id, canDraw) ==
    [i \in 1..Len(prev) |->
        IF prev[i].id = id THEN [prev[i] EXCEPT !.canDraw = canDraw] ELSE prev[i]]

\* The admin menu of a tile is rendered for a host viewing somebody else's
\* tile, and never on the AI's tile.
AdminTiles(list) == {i \in 1..Len(list) : ~list[i].isSelf /\ list[i].role # "ai"}

\* -------------------------------------------------------------- variables
VARIABLES
    mounted,          \* [Clients -> BOOLEAN]: the client's Classroom is mounted
    stream,           \* [Clients -> BOOLEAN]: useMediaStream's stream is non-null
    peer,             \* [Clients -> {"none","created","open"}]: peerRef.current
    participants,     \* [Clients -> Seq(Participant)]
    callsRef,         \* [Clients -> SUBSET ids]: the keys of callsRef.current
    callState,        \* [Guests -> {"none","offered","failed","answered"}]
    hostStreamEvts,   \* [Guests -> Nat]: 'stream' events fired on the host's side
    guestStreamEvts,  \* [Guests -> Nat]: 'stream' events fired on the guest's side
    removedByHost     \* ids the host has removed (history)

roomVars == <<mounted, stream, peer, participants, callsRef, callState,
              hostStreamEvts, guestStreamEvts, removedByHost>>

\* One browser tab: the App, its Lobby and its Classroom.
VARIABLES
    envApiKey,        \* process.env.API_KEY || ''
    app,              \* App state: inCall, userName, isAdmin, isAIEnabled, userApiKey
    lobby,            \* Lobby state: name, apiKeyInput, aiEnabled
    cls,              \* Classroom state: isAIActive, isSettingsOpen, stream,
                      \*   participants, privateChatRef, connectionState
    svc,              \* the Classroom's GeminiLiveService (serviceRef.current)
    enteredKey        \* the key typed in the lobby when the class was joined (history)

appVars == <<envApiKey, app, lobby, cls, svc, enteredKey>>

\* Screen sharing in the host's Classroom, camera stream and peer in place.
VARIABLES
    activeTool,       \* "NONE", "WHITEBOARD" or "SCREEN_SHARE"
    screenStreamRef,  \* screenStreamRef.current is non-null
    pendingDisplay,   \* getDisplayMedia() prompts not yet answered
    liveScreens,      \* display streams whose track has neither ended nor been stopped
    sentTrack         \* [Guests -> {"none","camera","screen"}]: the video sender's
                      \*   track of the call kept in callsRef.current, "none" without a call

shareVars == <<activeTool, screenStreamRef, pendingDisplay, liveScreens, sentTrack>>

\* The chat of the tab's Classroom, and what passes out of it.
VARIABLES
    isPrivateMode,    \* ChatSidebar: the recipient selector is on 'Professor AI (Private)'
    messages,         \* Classroom.messages: Seq of [sender, text, isPrivate]
    privatePending,   \* privateChatRef.sendMessage calls awaiting their response
    queryTimers,      \* the queries of handleContextQuery's pending 200ms timers
    privateChatLog,   \* texts passed to the private chat session (history)
    liveTextLog,      \* texts passed on to the live session by sendText (history)
    peerMessages      \* [Guests -> Seq of messages]: the message list in each guest's tab

chatVars == <<isPrivateMode, messages, privatePending, queryTimers, privateChatLog,
              liveTextLog, peerMessages>>

\* The Whiteboard of the tab's Classroom, mounted while activeTool is WHITEBOARD.
VARIABLES
    board             \* Whiteboard state: mounted, canvas, history, historyStep, tool,
                      \*   isDrawing, textInput, showQueryPopup; ink and resizes count
                      \*   the drawing operations and the container's size changes

boardVars == <<board>>

\* Units followed on their own: the useMediaStream hook with the resources of
\* the Classroom that uses it, the live service with its callbacks, and
\* the inputs and results of the utility functions.
VARIABLES
    media,            \* useMediaStream state and the Classroom's acquired resources
    live,             \* the live service's callbacks: lastStatus passed to onStatus ("" before
                      \*   any), sessions open and failed, close and error events so far
    roomIdIo,         \* generateRoomId: the values of Math.random() and the id returned
    base64Io          \* bytesToBase64 / base64ToBytes: bytes, their base64 text, the bytes read back

unitVars == <<media, live, roomIdIo, base64Io>>

vars == <<roomVars, appVars, shareVars, chatVars, boardVars, unitVars>>

notRoomVars == <<appVars, shareVars, chatVars, boardVars, unitVars>>

notAppVars == <<roomVars, unitVars, shareVars, chatVars, boardVars>>

\* board follows activeTool and is set by the actions that set activeTool.
notShareVars == <<roomVars, unitVars, appVars, chatVars>>

\* ------------------------------------------------------------------ Room
InitRoom ==
    /\ mounted = [c \in Clients |-> FALSE]
    /\ stream = [c \in Clients |-> FALSE]
    /\ peer = [c \in Clients |-> "none"]
    /\ participants = [c \in Clients |-> <<>>]
    /\ callsRef = [c \in Clients |-> {}]
    /\ callState = [g \in Guests |-> "none"]
    /\ hostStreamEvts = [g \in Guests |-> 0]
    /\ guestStreamEvts = [g \in Guests |-> 0]
    /\ removedByHost = {}

\* The Classroom mounts (AI off): initializeStream() is requested and the self
\* entry is created with a null stream.
Mount(c) ==
    /\ ~mounted[c]
    /\ mounted' = [mounted EXCEPT ![c] = TRUE]
    /\ participants' = [participants EXCEPT ![c] = SelfSetup(@, IsAdminClient(c), FALSE)]
    /\ UNCHANGED <<stream, peer, callsRef, callState, hostStreamEvts, guestStreamEvts,
                   removedByHost, notRoomVars>>

\* getUserMedia resolves: setStream, then the PeerJS effect creates the peer
\* and the self effect re-creates the self entry.
StreamReady(c) ==
    /\ mounted[c] /\ ~stream[c]
    /\ stream' = [stream EXCEPT ![c] = TRUE]
    /\ peer' = [peer EXCEPT ![c] = "created"]
    /\ participants' = [participants EXCEPT ![c] = SelfSetup(@, IsAdminClient(c), TRUE)]
    /\ UNCHANGED <<mounted, callsRef, callState, hostStreamEvts, guestStreamEvts,
                   removedByHost, notRoomVars>>

\* peer.on('open'): a guest calls the host's peer id and keeps the call.
PeerOpen(c) ==
    /\ peer[c] = "created"
    /\ peer' = [peer EXCEPT ![c] = "open"]
    /\ IF IsAdminClient(c)
       THEN UNCHANGED <<callsRef, callState>>
       ELSE /\ callsRef' = [callsRef EXCEPT ![c] = @ \cup {HostPeerId}]
            /\ callState' = [callState EXCEPT ![c] = "offered"]
    /\ UNCHANGED <<mounted, stream, participants, hostStreamEvts, guestStreamEvts,
                   removedByHost, notRoomVars>>

\* The signalling server gives up on an offer to an id nobody has registered:
\* peer.on('error') only logs, the call is never retried.
OfferExpire(g) ==
    /\ callState[g] = "offered"
    /\ peer[HostPeerId] # "open"
    /\ callState' = [callState EXCEPT ![g] = "failed"]
    /\ UNCHANGED <<mounted, stream, peer, participants, callsRef, hostStreamEvts,
                   guestStreamEvts, removedByHost, notRoomVars>>

\* peer.on('call') on the host: answer with the camera stream, keep the call.
HostOnCall(g) ==
    /\ callState[g] = "offered"
    /\ peer[HostPeerId] = "open"
    /\ callState' = [callState EXCEPT ![g] = "answered"]
    /\ callsRef' = [callsRef EXCEPT ![HostPeerId] = @ \cup {g}]
    /\ UNCHANGED <<mounted, stream, peer, participants, hostStreamEvts, guestStreamEvts,
                   removedByHost, notRoomVars>>

\* The call's 'stream' event on the host's side (PeerJS fires it once per
\* remote track, so more than once per call).
HostCallStream(g) ==
    /\ callState[g] = "answered"
    /\ hostStreamEvts[g] < MaxStreamEvents
    /\ hostStreamEvts' = [hostStreamEvts EXCEPT ![g] = @ + 1]
    /\ participants' = [participants EXCEPT ![HostPeerId] = OnHostCallStream(@, g)]
    /\ UNCHANGED <<mounted, stream, peer, callsRef, callState, guestStreamEvts,
                   removedByHost, notRoomVars>>

\* The call's 'stream' event on the guest's side.
GuestCallStream(g) ==
    /\ callState[g] = "answered"
    /\ guestStreamEvts[g] < MaxStreamEvents
    /\ guestStreamEvts' = [guestStreamEvts EXCEPT ![g] = @ + 1]
    /\ participants' = [participants EXCEPT ![g] = OnGuestCallStream(@)]
    /\ UNCHANGED <<mounted, stream, peer, callsRef, callState, hostStreamEvts,
                   removedByHost, notRoomVars>>

\* The host clicks 'Remove User' on a tile.
RemoveParticipant(i) ==
    /\ i \in AdminTiles(participants[HostPeerId])
    /\ LET id == participants[HostPeerId][i].id IN
        /\ participants' = [participants EXCEPT ![HostPeerId] = handleRemoveParticipant(@, id)]
        /\ removedByHost' = removedByHost \cup {id}
    /\ UNCHANGED <<mounted, stream, peer, callsRef, callState, hostStreamEvts,
                   guestStreamEvts, notRoomVars>>

\* The host clicks 'Allow Draw' / 'Revoke Draw' on a tile.
UpdatePermissions(i) ==
    /\ i \in AdminTiles(participants[HostPeerId])
    /\ LET p == participants[HostPeerId][i] IN
        participants' = [participants EXCEPT
            ![HostPeerId] = handleUpdatePermissions(@, p.id, ~p.canDraw)]
    /\ UNCHANGED <<mounted, stream, peer, callsRef, callState, hostStreamEvts,
                   guestStreamEvts, removedByHost, notRoomVars>>

NextRoom ==
    \/ \E c \in Clients : Mount(c)
    \/ \E c \in Clients : StreamReady(c)
    \/ \E c \in Clients : PeerOpen(c)
    \/ \E g \in Guests : OfferExpire(g)
    \/ \E g \in Guests : HostOnCall(g)
    \/ \E g \in Guests : HostCallStream(g)
    \/ \E g \in Guests : GuestCallStream(g)
    \/ \E i \in DOMAIN participants[HostPeerId] : RemoveParticipant(i)
    \/ \E i \in DOMAIN participants[HostPeerId] : UpdatePermissions(i)

\* The id under which client d is listed by another client: its peer id.
Sees(c, d) == CountId(participants[c], d) = 1

\* Everybody has joined with a stream, every call is answered and has fired its
\* 'stream' event on both sides, and the host has removed nobody.
RoomSettled ==
    /\ \A c \in Clients : mounted[c] /\ stream[c] /\ peer[c] = "open"
    /\ \A g \in Guests :
        callState[g] = "answered" /\ hostStreamEvts[g] >= 1 /\ guestStreamEvts[g] >= 1
    /\ removedByHost = {}

\* C1: once a host and the guests have joined a room with their streams
\* (and every call has delivered its stream), every one of them appears exactly
\* once in the participant list of every other one: host <-> guest and
\* guest <-> guest.
C1_EveryoneListedOnce ==
    RoomSettled => \A c \in Clients : \A d \in Clients \ {c} : Sees(c, d)

\* The part of C1 between the host and each guest.
HostAndGuestsListedOnce ==
    RoomSettled => \A g \in Guests : Sees(HostPeerId, g) /\ Sees(g, HostPeerId)

\* C5: a participant the host has removed is out of the class: not in the
\* host's participant list (also after a later 'stream' event of its call) and
\* its call is no longer kept in callsRef.
C5_RemovedIsOut ==
    \A id \in removedByHost :
        /\ ~HasId(participants[HostPeerId], id)
        /\ id \notin callsRef[HostPeerId]

\* The two halves of C5, each on its own.
RemovedNotListed == \A id \in removedByHost : ~HasId(participants[HostPeerId], id)

RemovedCallClosed == \A id \in removedByHost : id \notin callsRef[HostPeerId]

\* What the host has granted to guest g, and what g's own Whiteboard gets:
\* canDraw = participants.find(p => p.isSelf)?.permissions?.canDraw ?? false.
HostGrantedDraw(g) ==
    \E i \in DOMAIN participants[HostPeerId] :
        participants[HostPeerId][i].id = g /\ participants[HostPeerId][i].canDraw

WhiteboardCanDraw(c) ==
    \E i \in DOMAIN participants[c] : participants[c][i].isSelf /\ participants[c][i].canDraw

\* C9: draw permission granted by the host takes effect for the guest: while
\* the host's list shows 'Allow Draw' granted to a guest, that guest's own
\* whiteboard has canDraw = true.  (handleUpdatePermissions leaves nothing in
\* flight, so the state after the click is the state the guest stays in.)
C9_GrantReachesGuest ==
    \A g \in Guests : HostGrantedDraw(g) => WhiteboardCanDraw(g)

\* ---------------------------------------------------- GeminiLiveService
\* A new GeminiLiveService.  opening counts the sessions of ai.live.connect
\* that have not fired onopen yet, closing the disconnect() calls waiting in
\* `await audioContext.close()`, liveProcessors the input script processors
\* still wired into an audio graph, sessions the calls of ai.live.connect.
SvcNew ==
    [isConnected |-> FALSE, audioContext |-> FALSE, sessionPromise |-> FALSE,
     inputScriptProcessor |-> FALSE, liveProcessors |-> 0,
     opening |-> 0, closing |-> 0, sessions |-> 0]

\* connect(): nothing when connected; otherwise a new audio context and session.
connect(s) ==
    IF s.isConnected THEN s
    ELSE [s EXCEPT !.audioContext = TRUE, !.sessionPromise = TRUE, !.isConnected = TRUE,
                   !.opening = @ + 1, !.sessions = @ + 1]

\* The status connect() reports through onStatus ("" for none).
connectStatus(s) == IF s.isConnected THEN "" ELSE "CONNECTING"

\* disconnect() up to its await: the latest input nodes are unwired.
disconnect(s) ==
    [s EXCEPT !.isConnected = FALSE,
              !.liveProcessors = IF s.inputScriptProcessor THEN @ - 1 ELSE @,
              !.inputScriptProcessor = FALSE,
              !.closing = IF s.audioContext THEN @ + 1 ELSE @]

\* Without an audio context disconnect() runs to its end at once.
disconnectStatus(s) == IF s.audioContext THEN "" ELSE "DISCONNECTED"

\* disconnect() after `await this.audioContext.close()`.
disconnectResumed(s) == [s EXCEPT !.closing = @ - 1, !.audioContext = FALSE]

\* startAudioStream(stream): a new input context, source and processor.
startAudioStream(s) ==
    IF ~s.audioContext \/ ~s.sessionPromise THEN s
    ELSE [s EXCEPT !.inputScriptProcessor = TRUE, !.liveProcessors = @ + 1]

\* (status) => setConnectionState(status)
SetStatus(connectionState, status) == IF status = "" THEN connectionState ELSE status

\* ------------------------------------------------------------ Whiteboard
Min(a, b) == IF a < b THEN a ELSE b

\* The tools, one of each kind: pen stands for the freehand tools (pen, marker,
\* highlighter, eraser), rect for the shapes (rect, circle, line).
Tools == {"pen", "rect", "text", "context"}

\* No Whiteboard is mounted.
BoardUnmounted ==
    [mounted |-> FALSE, canvas |-> 0, history |-> <<>>, historyStep |-> -1, tool |-> "pen",
     isDrawing |-> FALSE, textInput |-> "none", showQueryPopup |-> FALSE,
     ink |-> 0, resizes |-> 0]

\* saveHistory as created by a render whose historyStep was closureStep: the
\* slice uses the closure's step, the step's update the current one.
saveHistory(b, closureStep) ==
    LET kept == SubSeq(b.history, 1, Min(closureStep + 1, Len(b.history)))
        newHistory == Append(kept, b.canvas)
    IN  [b EXCEPT !.history = IF Len(newHistory) > HistoryCap THEN Tail(newHistory)
                               ELSE newHistory,
                  !.historyStep = Min(@ + 1, HistoryCap - 1)]

\* initCanvas of the mount effect: it lives as long as the Whiteboard and sees
\* the first render's historyStep (-1) and saveHistory.  The canvas is resized,
\* which empties it, and filled white (content 0).
initCanvas(b) == saveHistory([b EXCEPT !.canvas = 0], -1)

\* The Whiteboard after its mount effects.
BoardMounted == initCanvas([BoardUnmounted EXCEPT !.mounted = TRUE])

\* The Whiteboard is rendered while activeTool is WHITEBOARD.
BoardAfterTool(oldTool, newTool, b) ==
    IF newTool = "WHITEBOARD"
    THEN (IF oldTool = "WHITEBOARD" THEN b ELSE BoardMounted)
    ELSE BoardUnmounted

\* restoreHistory(step)
restoreHistory(b, step) ==
    IF step + 1 \in DOMAIN b.history THEN [b EXCEPT !.canvas = b.history[step + 1]] ELSE b

handleUndo(b) ==
    IF b.historyStep > 0
    THEN [restoreHistory(b, b.historyStep - 1) EXCEPT !.historyStep = b.historyStep - 1]
    ELSE b

handleRedo(b) ==
    IF b.historyStep < Len(b.history) - 1
    THEN [restoreHistory(b, b.historyStep + 1) EXCEPT !.historyStep = b.historyStep + 1]
    ELSE b

\* A drawing operation leaves content the canvas has not had before.
Drawn(b) == [b EXCEPT !.canvas = b.ink + 1, !.ink = @ + 1]

startAction(b, canDraw) ==
    IF ~canDraw /\ b.tool # "context" THEN b
    ELSE IF b.tool = "text" THEN [b EXCEPT !.textInput = "empty"]
    ELSE IF b.tool = "context"
         THEN [b EXCEPT !.isDrawing = TRUE, !.showQueryPopup = FALSE]
         ELSE [b EXCEPT !.isDrawing = TRUE]

moveAction(b) ==
    IF ~b.isDrawing THEN b
    ELSE IF b.tool = "context" THEN b
    ELSE Drawn(b)

endAction(b) ==
    IF b.tool = "context" /\ b.isDrawing
    THEN [b EXCEPT !.isDrawing = FALSE, !.showQueryPopup = TRUE]
    ELSE [(IF b.isDrawing THEN saveHistory(b, b.historyStep) ELSE b) EXCEPT !.isDrawing = FALSE]

handleTextComplete(b) ==
    IF b.textInput # "typed" THEN [b EXCEPT !.textInput = "none"]
    ELSE [saveHistory(Drawn(b), b.historyStep) EXCEPT !.textInput = "none"]

\* drawImageOnCanvas, once the image has loaded.
drawImageOnCanvas(b) == saveHistory(Drawn(b), b.historyStep)

handlePaste(b, canDraw) == IF ~canDraw THEN b ELSE drawImageOnCanvas(b)

clearBoard(b, canDraw) ==
    IF ~canDraw THEN b
    ELSE [saveHistory([b EXCEPT !.canvas = 0], b.historyStep) EXCEPT !.showQueryPopup = FALSE]

\* The effect on [canDraw, tool].
ToolEffect(b, canDraw) == IF ~canDraw /\ b.tool # "context" THEN [b EXCEPT !.tool = "pen"] ELSE b

\* The canDraw prop the Classroom passes to its Whiteboard.
canDraw ==
    \E i \in DOMAIN cls.participants :
        cls.participants[i].isSelf /\ cls.participants[i].canDraw

InitBoard == board = BoardUnmounted

\* A step of the mounted Whiteboard that touches nothing else.
BoardStep(b) ==
    /\ board.mounted
    /\ b # board
    /\ Len(b.history) <= MaxSnapshots
    /\ board' = b
    /\ UNCHANGED <<roomVars, unitVars, appVars, shareVars, chatVars>>

\* The tool buttons: part of the toolbar, rendered only with canDraw.
SelectTool(t) == canDraw /\ BoardStep(ToolEffect([board EXCEPT !.tool = t], canDraw))

\* Pointer down, move and up on the canvas.
PointerDown == board.mounted /\ BoardStep(startAction(board, canDraw))

PointerMove == board.ink < MaxInk /\ BoardStep(moveAction(board))

PointerUp == board.mounted /\ BoardStep(endAction(board))

\* Typing into the text box and leaving it.
TypeText == board.textInput = "empty" /\ BoardStep([board EXCEPT !.textInput = "typed"])

TextComplete ==
    /\ board.textInput # "none"
    /\ board.textInput = "typed" => board.ink < MaxInk
    /\ BoardStep(handleTextComplete(board))

\* An image is pasted into the window.
PasteImage == board.ink < MaxInk /\ BoardStep(handlePaste(board, canDraw))

\* The upload button: part of the toolbar.
UploadImage == canDraw /\ board.ink < MaxInk /\ BoardStep(drawImageOnCanvas(board))

ClearBoard == board.mounted /\ BoardStep(clearBoard(board, canDraw))

\* Ctrl+Z and Ctrl+Shift+Z anywhere in the window (the toolbar's undo and redo
\* buttons call the same handlers).
KeyUndo == board.mounted /\ BoardStep(handleUndo(board))

KeyRedo == board.mounted /\ BoardStep(handleRedo(board))

\* The container changes size (the window is resized, the chat sidebar opens
\* or closes): the ResizeObserver runs initCanvas.
Resize ==
    /\ board.resizes < MaxResizes
    /\ BoardStep([initCanvas(board) EXCEPT !.resizes = @ + 1])

\* The query popup is submitted: handleQuerySubmit and the Classroom's
\* handleContextQuery.
QuerySubmit(query) ==
    /\ board.mounted /\ board.showQueryPopup
    /\ board' = [board EXCEPT !.showQueryPopup = FALSE]
    /\ IF cls.isAIActive /\ Len(queryTimers) + Len(liveTextLog) < MaxQueries
       THEN queryTimers' = Append(queryTimers, query)
       ELSE UNCHANGED queryTimers
    /\ UNCHANGED <<isPrivateMode, messages, privatePending, privateChatLog, liveTextLog,
                   peerMessages, roomVars, unitVars, appVars, shareVars>>

\* ---------------------------------------------------------- Screen share
\* replaceVideoTrack: every call in callsRef.current gets the new track.
replaceVideoTrack(sent, newTrack) ==
    [g \in DOMAIN sent |-> IF sent[g] = "none" THEN "none" ELSE newTrack]

InitShare ==
    /\ activeTool = "NONE"
    /\ screenStreamRef = FALSE
    /\ pendingDisplay = 0
    /\ liveScreens = 0
    /\ sentTrack = [g \in Guests |-> "none"]

\* handleToggleScreenShare, the branch taken while sharing (synchronous).
StopSharing(nextTool) ==
    /\ screenStreamRef' = FALSE
    /\ liveScreens' = IF screenStreamRef THEN liveScreens - 1 ELSE liveScreens
    /\ sentTrack' = replaceVideoTrack(sentTrack, "camera")
    /\ activeTool' = nextTool
    /\ UNCHANGED pendingDisplay

\* The share button: stop, or ask the browser for a display stream.
ToggleScreenShare ==
    /\ IF activeTool = "SCREEN_SHARE"
       THEN StopSharing("NONE")
       ELSE /\ pendingDisplay < MaxPendingDisplay
            /\ pendingDisplay' = pendingDisplay + 1
            /\ UNCHANGED <<activeTool, screenStreamRef, liveScreens, sentTrack>>
    /\ UNCHANGED notShareVars
    /\ board' = BoardAfterTool(activeTool, activeTool', board)

\* getDisplayMedia resolves: the rest of handleToggleScreenShare.
DisplayGranted ==
    /\ pendingDisplay > 0
    /\ liveScreens < MaxLiveScreens
    /\ pendingDisplay' = pendingDisplay - 1
    /\ screenStreamRef' = TRUE
    /\ liveScreens' = liveScreens + 1
    /\ sentTrack' = replaceVideoTrack(sentTrack, "screen")
    /\ activeTool' = "SCREEN_SHARE"
    /\ UNCHANGED notShareVars
    /\ board' = BoardAfterTool(activeTool, activeTool', board)

\* getDisplayMedia rejects: the catch only logs.
DisplayDenied ==
    /\ pendingDisplay > 0
    /\ pendingDisplay' = pendingDisplay - 1
    /\ UNCHANGED <<activeTool, screenStreamRef, liveScreens, sentTrack>>
    /\ UNCHANGED notShareVars
    /\ board' = BoardAfterTool(activeTool, activeTool', board)

\* The browser's stop-sharing control ends a display track: screenTrack.onended.
ScreenTrackEnded ==
    /\ liveScreens > 0
    /\ liveScreens' = liveScreens - 1
    /\ sentTrack' = replaceVideoTrack(sentTrack, "camera")
    /\ activeTool' = "NONE"
    /\ screenStreamRef' = FALSE
    /\ UNCHANGED pendingDisplay
    /\ UNCHANGED notShareVars
    /\ board' = BoardAfterTool(activeTool, activeTool', board)

\* The whiteboard button: onToggleWhiteboard.
ToggleWhiteboard ==
    /\ IF activeTool = "SCREEN_SHARE"
       THEN StopSharing("WHITEBOARD")
       ELSE /\ activeTool' = IF activeTool = "WHITEBOARD" THEN "NONE" ELSE "WHITEBOARD"
            /\ UNCHANGED <<screenStreamRef, pendingDisplay, liveScreens, sentTrack>>
    /\ UNCHANGED notShareVars
    /\ board' = BoardAfterTool(activeTool, activeTool', board)

\* peer.on('call'): call.answer(stream) with the camera stream; the call is kept.
AnswerCall(g) ==
    /\ sentTrack[g] = "none"
    /\ sentTrack' = [sentTrack EXCEPT ![g] = "camera"]
    /\ UNCHANGED <<activeTool, screenStreamRef, pendingDisplay, liveScreens>>
    /\ UNCHANGED notShareVars
    /\ board' = BoardAfterTool(activeTool, activeTool', board)

NextShare ==
    \/ ToggleScreenShare
    \/ DisplayGranted
    \/ DisplayDenied
    \/ ScreenTrackEnded
    \/ ToggleWhiteboard
    \/ \E g \in Guests : AnswerCall(g)

\* C4: on every active call the video track sent is the screen track while
\* activeTool is SCREEN_SHARE and the camera track otherwise.
C4_SentTrackFollowsTool ==
    \A g \in Guests :
        sentTrack[g] # "none" =>
            sentTrack[g] = IF activeTool = "SCREEN_SHARE" THEN "screen" ELSE "camera"

\* The part of C4 about calls that exist when the tool changes.
ExistingCallsFollowTool ==
    [][\A g \in Guests :
        (sentTrack[g] # "none" /\ sentTrack'[g] # "none" /\ activeTool' # activeTool) =>
            sentTrack'[g] = IF activeTool' = "SCREEN_SHARE" THEN "screen" ELSE "camera"]_vars

\* ------------------------------------------------------- App and Lobby
\* Strings that matter to the code: empty, whitespace-only, and a real value.
Keys == {"", " ", "k"}

Names == {"", "n"}

\* String.prototype.trim on Keys.
Trim(str) == IF str = " " THEN "" ELSE str

\* JavaScript truthiness of a string: only '' is falsy.
Truthy(str) == str # ""

\* App: activeApiKey = envApiKey || userApiKey.
activeApiKey(env, userKey) == IF Truthy(env) THEN env ELSE userKey

\* App: needsApiKey = !envApiKey.
needsApiKey == ~Truthy(envApiKey)

\* The Lobby effect on [apiKeyInput, needsApiKey].
LobbyKeyEffect(needs, apiKeyInput, aiEnabled) ==
    IF needs /\ ~Truthy(Trim(apiKeyInput)) THEN FALSE
    ELSE IF needs /\ Truthy(Trim(apiKeyInput)) THEN TRUE
    ELSE aiEnabled

\* The Lobby as mounted: apiKeyInput = savedApiKey || '', aiEnabled = true,
\* then the key effect.
LobbyMounted(needs, savedApiKey) ==
    [name |-> "", apiKeyInput |-> savedApiKey,
     aiEnabled |-> LobbyKeyEffect(needs, savedApiKey, TRUE)]

\* Lobby.validateAndJoin's finalAiEnabled.
finalAiEnabled(needs, apiKeyInput, aiEnabled) ==
    IF needs /\ ~Truthy(Trim(apiKeyInput)) THEN FALSE ELSE aiEnabled

\* App.handleJoin: if (apiKey) setUserApiKey(apiKey).
handleJoinKey(userKey, apiKey) == IF Truthy(apiKey) THEN apiKey ELSE userKey

\* Classroom: useState(initialAIEnabled && !!apiKey).
InitialAIActive(initialAIEnabled, apiKey) == initialAIEnabled /\ Truthy(apiKey)

\* ChatSidebar: "If AI is disabled, force public mode".
ForcePublic(isAIEnabled, privateMode) == IF ~isAIEnabled THEN FALSE ELSE privateMode

\* SettingsModal: hasApiKey = !!apiKey; the AI checkbox is disabled without it.
hasApiKey(apiKey) == Truthy(apiKey)

ClsUnmounted ==
    [isAIActive |-> FALSE, isSettingsOpen |-> FALSE, stream |-> FALSE,
     participants |-> <<>>, privateChatRef |-> FALSE, connectionState |-> "DISCONNECTED"]

\* The "Handle AI Activation/Deactivation" effect on the Classroom's state;
\* c is the state the effect runs in, s the service before the effect.  The
\* service exists when there is a key (serviceRef.current otherwise is null).
AIActivationEffect(c, s, apiKey) ==
    IF c.isAIActive /\ Truthy(apiKey)
    THEN [c EXCEPT !.privateChatRef = TRUE,
                   !.participants = AddAiParticipant(@),
                   !.connectionState = SetStatus(@, connectStatus(s))]
    ELSE [c EXCEPT !.privateChatRef = FALSE,
                   !.participants = RemoveAiParticipant(@),
                   !.connectionState =
                        IF Len(c.participants) <= 1 THEN "DISCONNECTED"
                        ELSE IF Truthy(apiKey) THEN SetStatus(@, disconnectStatus(s))
                        ELSE @]

\* The same effect on the service.
AIActivationService(c, s, apiKey) ==
    IF ~Truthy(apiKey) THEN s
    ELSE IF c.isAIActive THEN connect(s)
    ELSE disconnect(s)

\* The Classroom after its first render and mount effects.
ClsMounted(isAdmin, initialAIEnabled, apiKey) ==
    LET c0 == [ClsUnmounted EXCEPT !.isAIActive = InitialAIActive(initialAIEnabled, apiKey)]
        c1 == AIActivationEffect(c0, SvcNew, apiKey)
    IN  [c1 EXCEPT !.participants = SelfSetup(@, isAdmin, FALSE)]

\* The service after the Classroom's mount effects.
SvcMounted(initialAIEnabled, apiKey) ==
    AIActivationService([isAIActive |-> InitialAIActive(initialAIEnabled, apiKey)],
                        SvcNew, apiKey)

InitApp ==
    /\ envApiKey \in {"", "k"}
    /\ app = [inCall |-> FALSE, userName |-> "", isAdmin |-> FALSE, isAIEnabled |-> TRUE,
              userApiKey |-> ""]
    /\ lobby = LobbyMounted(~Truthy(envApiKey), "")
    /\ cls = ClsUnmounted
    /\ svc = SvcNew
    /\ enteredKey = ""

LobbySetName(n) ==
    /\ ~app.inCall
    /\ lobby' = [lobby EXCEPT !.name = n]
    /\ UNCHANGED <<envApiKey, app, cls, svc, enteredKey, notAppVars>>

\* The key input is rendered only when a key is needed.
LobbySetApiKey(k) ==
    /\ ~app.inCall /\ needsApiKey
    /\ lobby' = [lobby EXCEPT !.apiKeyInput = k,
                              !.aiEnabled = LobbyKeyEffect(needsApiKey, k, @)]
    /\ UNCHANGED <<envApiKey, app, cls, svc, enteredKey, notAppVars>>

\* The lobby's AI checkbox, disabled={needsApiKey && !apiKeyInput} (shown in
\* 'start' mode; the mode can be switched at will before joining).
LobbyToggleAI ==
    /\ ~app.inCall
    /\ ~(needsApiKey /\ ~Truthy(lobby.apiKeyInput))
    /\ lobby' = [lobby EXCEPT !.aiEnabled = ~@]
    /\ UNCHANGED <<envApiKey, app, cls, svc, enteredKey, notAppVars>>

\* 'New meeting' (admin) or 'Join' (guest): validateAndJoin, App.handleJoin,
\* and the Classroom's mount.
ValidateAndJoin(admin) ==
    /\ ~app.inCall
    /\ Truthy(lobby.name)
    /\ LET ai == finalAiEnabled(needsApiKey, lobby.apiKeyInput, lobby.aiEnabled)
           userKey == handleJoinKey(app.userApiKey, lobby.apiKeyInput)
       IN  /\ app' = [inCall |-> TRUE, userName |-> lobby.name, isAdmin |-> admin,
                      isAIEnabled |-> ai, userApiKey |-> userKey]
           /\ cls' = ClsMounted(admin, ai, activeApiKey(envApiKey, userKey))
           /\ svc' = SvcMounted(ai, activeApiKey(envApiKey, userKey))
    /\ enteredKey' = lobby.apiKeyInput
    /\ UNCHANGED <<envApiKey, lobby, notAppVars>>

\* App.handleLeave: back to the lobby, which mounts afresh with the saved key.
\* The Classroom unmounts; its service is disconnected and dropped.
Leave ==
    /\ app.inCall
    /\ svc' = SvcNew
    /\ app' = [app EXCEPT !.inCall = FALSE, !.userName = "", !.isAdmin = FALSE,
                          !.isAIEnabled = TRUE]
    /\ lobby' = LobbyMounted(needsApiKey, app.userApiKey)
    /\ cls' = ClsUnmounted
    /\ isPrivateMode' = FALSE
    /\ messages' = <<>>
    /\ privatePending' = 0
    /\ queryTimers' = <<>>
    /\ UNCHANGED <<envApiKey, enteredKey, roomVars, unitVars, shareVars, boardVars>>
    /\ UNCHANGED <<privateChatLog, liveTextLog, peerMessages>>

OpenSettings ==
    /\ app.inCall /\ ~cls.isSettingsOpen
    /\ cls' = [cls EXCEPT !.isSettingsOpen = TRUE]
    /\ UNCHANGED <<envApiKey, app, lobby, svc, enteredKey, notAppVars>>

CloseSettings ==
    /\ app.inCall /\ cls.isSettingsOpen
    /\ cls' = [cls EXCEPT !.isSettingsOpen = FALSE]
    /\ UNCHANGED <<envApiKey, app, lobby, svc, enteredKey, notAppVars>>

\* The Settings checkbox, onChange={(e) => hasApiKey && onToggleAI(e.target.checked)},
\* then the activation effect.
SettingsToggleAI ==
    /\ app.inCall /\ cls.isSettingsOpen
    /\ hasApiKey(activeApiKey(envApiKey, app.userApiKey))
    /\ cls.isAIActive \/ svc.isConnected \/ svc.sessions < MaxSessions
    /\ LET c == [cls EXCEPT !.isAIActive = ~@]
           apiKey == activeApiKey(envApiKey, app.userApiKey)
       IN  /\ cls' = AIActivationEffect(c, svc, apiKey)
           /\ svc' = AIActivationService(c, svc, apiKey)
           /\ isPrivateMode' = ForcePublic(c.isAIActive, isPrivateMode)
    /\ UNCHANGED <<envApiKey, app, lobby, enteredKey, roomVars, unitVars, shareVars, boardVars>>
    /\ UNCHANGED <<messages, privatePending, queryTimers, privateChatLog, liveTextLog,
                   peerMessages>>

\* The live session's onopen: handleOpen reports CONNECTED.
SessionOpened ==
    /\ app.inCall /\ svc.opening > 0
    /\ svc' = [svc EXCEPT !.opening = @ - 1]
    /\ cls' = [cls EXCEPT !.connectionState = "CONNECTED"]
    /\ UNCHANGED <<envApiKey, app, lobby, enteredKey, notAppVars>>

\* audioContext.close() resolves: disconnect() drops the context and reports
\* DISCONNECTED.
AudioContextClosed ==
    /\ app.inCall /\ svc.closing > 0
    /\ svc' = disconnectResumed(svc)
    /\ cls' = [cls EXCEPT !.connectionState = "DISCONNECTED"]
    /\ UNCHANGED <<envApiKey, app, lobby, enteredKey, notAppVars>>

\* getUserMedia resolves: the self entry is re-created with the stream.
ClsStreamReady ==
    /\ app.inCall /\ ~cls.stream
    /\ cls' = [cls EXCEPT !.stream = TRUE,
                          !.participants = SelfSetup(@, app.isAdmin, TRUE)]
    /\ UNCHANGED <<envApiKey, app, lobby, svc, enteredKey, notAppVars>>

\* A peer's call fires 'stream': a guest's call on the host, the host's call
\* on a guest.  The peer exists once the stream does.
ClsPeerStream(id) ==
    /\ app.inCall /\ cls.stream
    /\ IF app.isAdmin
       THEN /\ id \in Guests
            /\ cls' = [cls EXCEPT !.participants = OnHostCallStream(@, id)]
       ELSE /\ id = HostPeerId
            /\ cls' = [cls EXCEPT !.participants = OnGuestCallStream(@)]
    /\ UNCHANGED <<envApiKey, app, lobby, svc, enteredKey, notAppVars>>

\* The host's 'Remove User' on a tile of this Classroom.
ClsRemove(i) ==
    /\ app.inCall /\ app.isAdmin
    /\ i \in AdminTiles(cls.participants)
    /\ cls' = [cls EXCEPT !.participants = handleRemoveParticipant(@, cls.participants[i].id)]
    /\ UNCHANGED <<envApiKey, app, lobby, svc, enteredKey, notAppVars>>

NextApp ==
    \/ \E n \in Names : LobbySetName(n)
    \/ \E k \in Keys : LobbySetApiKey(k)
    \/ LobbyToggleAI
    \/ \E admin \in BOOLEAN : ValidateAndJoin(admin)
    \/ Leave
    \/ OpenSettings
    \/ CloseSettings
    \/ SettingsToggleAI
    \/ SessionOpened
    \/ AudioContextClosed
    \/ ClsStreamReady
    \/ \E id \in Clients : ClsPeerStream(id)
    \/ \E i \in DOMAIN cls.participants : ClsRemove(i)

\* ------------------------------------------------------------------ Chat
\* Texts.  What is typed in private mode is kept apart from everything else,
\* so that its way through the program can be followed.
PublicTexts == {"hello"}

PrivateTexts == {"secret"}

PrivateReplies == {"answer"}

LiveTexts == {"speech"}

QueryTexts == {"what"}

GuestTexts == {"guest"}

ChatMessage(sender, text, isPrivate) == [sender |-> sender, text |-> text, isPrivate |-> isPrivate]

\* sendText(text): passed on to the session only when connected.
sendText(s, log, text) ==
    IF ~s.isConnected \/ ~s.sessionPromise THEN log ELSE Append(log, text)

\* The service's onText callback as the Classroom sets it.
OnTextMessages(prev, text, isUser, isFinal) ==
    LET sender == IF isUser THEN "user" ELSE "ai" IN
    IF prev # <<>> /\ prev[Len(prev)].sender = sender /\ ~isFinal /\ ~prev[Len(prev)].isPrivate
    THEN [prev EXCEPT ![Len(prev)].text = text]
    ELSE Append(prev, ChatMessage(sender, text, FALSE))

InitChat ==
    /\ isPrivateMode = FALSE
    /\ messages = <<>>
    /\ privatePending = 0
    /\ queryTimers = <<>>
    /\ privateChatLog = {}
    /\ liveTextLog = <<>>
    /\ peerMessages = [g \in Guests |-> <<>>]

\* The recipient selector: onClick={() => isAIEnabled && setIsPrivateMode(!isPrivateMode)}.
TogglePrivateMode ==
    /\ app.inCall /\ cls.isAIActive
    /\ isPrivateMode' = ~isPrivateMode
    /\ UNCHANGED <<messages, privatePending, queryTimers, privateChatLog, liveTextLog,
                   peerMessages, roomVars, unitVars, appVars, shareVars, boardVars>>

\* A handleSendMessage that also hands the text to the live session.
SendMessageAlsoLive(text) ==
    /\ app.inCall
    /\ Len(messages) < MaxMessages
    /\ text \in (IF isPrivateMode THEN PrivateTexts ELSE PublicTexts)
    /\ messages' = Append(messages, ChatMessage("user", text, isPrivateMode))
    /\ liveTextLog' = sendText(svc, liveTextLog, text)
    /\ IF isPrivateMode /\ cls.isAIActive /\ cls.privateChatRef
       THEN /\ privateChatLog' = privateChatLog \cup {text}
            /\ privatePending' = privatePending + 1
       ELSE UNCHANGED <<privateChatLog, privatePending>>
    /\ UNCHANGED <<isPrivateMode, queryTimers, peerMessages, roomVars, unitVars, appVars, shareVars, boardVars>>

\* ChatSidebar.handleSubmit and Classroom.handleSendMessage up to its await.
SendMessage(text) ==
    /\ app.inCall
    /\ Len(messages) < MaxMessages
    /\ text \in (IF isPrivateMode THEN PrivateTexts ELSE PublicTexts)
    /\ messages' = Append(messages, ChatMessage("user", text, isPrivateMode))
    /\ IF isPrivateMode /\ cls.isAIActive /\ cls.privateChatRef
       THEN /\ privateChatLog' = privateChatLog \cup {text}
            /\ privatePending' = privatePending + 1
       ELSE UNCHANGED <<privateChatLog, privatePending>>
    /\ UNCHANGED <<isPrivateMode, queryTimers, liveTextLog, peerMessages,
                   roomVars, unitVars, appVars, shareVars, boardVars>>

\* The private chat answers: handleSendMessage after its await.
PrivateReply(text) ==
    /\ app.inCall /\ privatePending > 0
    /\ Len(messages) < MaxMessages
    /\ privatePending' = privatePending - 1
    /\ messages' = Append(messages, ChatMessage("ai", text, TRUE))
    /\ UNCHANGED <<isPrivateMode, queryTimers, privateChatLog, liveTextLog, peerMessages,
                   roomVars, unitVars, appVars, shareVars, boardVars>>

\* The private chat fails: catch (e) {}.
PrivateFail ==
    /\ app.inCall /\ privatePending > 0
    /\ privatePending' = privatePending - 1
    /\ UNCHANGED <<isPrivateMode, messages, queryTimers, privateChatLog, liveTextLog,
                   peerMessages, roomVars, unitVars, appVars, shareVars, boardVars>>

\* handleContextQuery: the frame goes out, the text follows after 200ms.
ContextQuery(query) ==
    /\ app.inCall /\ cls.isAIActive
    /\ Len(queryTimers) + Len(liveTextLog) < MaxQueries
    /\ queryTimers' = Append(queryTimers, query)
    /\ UNCHANGED <<isPrivateMode, messages, privatePending, privateChatLog, liveTextLog,
                   peerMessages, roomVars, unitVars, appVars, shareVars, boardVars>>

\* The 200ms timer of handleContextQuery.
ContextQueryTimer ==
    /\ app.inCall /\ queryTimers # <<>>
    /\ Len(messages) < MaxMessages
    /\ queryTimers' = Tail(queryTimers)
    /\ liveTextLog' =
         sendText(svc, liveTextLog, "I am pointing at the whiteboard. " \o Head(queryTimers))
    /\ messages' =
         Append(messages, ChatMessage("user", "(Pointed at board) " \o Head(queryTimers), FALSE))
    /\ UNCHANGED <<isPrivateMode, privatePending, privateChatLog, peerMessages,
                   roomVars, unitVars, appVars, shareVars, boardVars>>

\* A transcription arrives from the live session: handleMessage, onText.
OnText(text, isUser) ==
    /\ app.inCall /\ svc.audioContext /\ svc.sessionPromise
    /\ Len(messages) < MaxMessages
    /\ messages' = OnTextMessages(messages, text, isUser, FALSE)
    /\ UNCHANGED <<isPrivateMode, privatePending, queryTimers, privateChatLog, liveTextLog,
                   peerMessages, roomVars, unitVars, appVars, shareVars, boardVars>>

\* A guest sends a public message in its own tab: the same handleSendMessage.
GuestSend(g, text) ==
    /\ Len(peerMessages[g]) < MaxPeerMessages
    /\ peerMessages' = [peerMessages EXCEPT ![g] = Append(@, ChatMessage("user", text, FALSE))]
    /\ UNCHANGED <<isPrivateMode, messages, privatePending, queryTimers, privateChatLog,
                   liveTextLog, roomVars, unitVars, appVars, shareVars, boardVars>>

NextChat ==
    \/ OpenSettings
    \/ CloseSettings
    \/ SettingsToggleAI
    \/ SessionOpened
    \/ AudioContextClosed
    \/ TogglePrivateMode
    \/ \E text \in PublicTexts \cup PrivateTexts : SendMessage(text)
    \/ \E text \in PrivateReplies : PrivateReply(text)
    \/ PrivateFail
    \/ \E query \in QueryTexts : ContextQuery(query)
    \/ ContextQueryTimer
    \/ \E text \in LiveTexts : \E isUser \in BOOLEAN : OnText(text, isUser)
    \/ \E g \in Guests : \E text \in GuestTexts : GuestSend(g, text)

\* A tab after 'New meeting' (admin) or 'Join' with an environment key and the
\* AI enabled.
JoinedAs(admin) ==
    /\ envApiKey = "k"
    /\ app = [inCall |-> TRUE, userName |-> "n", isAdmin |-> admin, isAIEnabled |-> TRUE,
              userApiKey |-> ""]
    /\ lobby = [name |-> "n", apiKeyInput |-> "", aiEnabled |-> TRUE]
    /\ cls = ClsMounted(admin, TRUE, "k")
    /\ svc = SvcMounted(TRUE, "k")
    /\ enteredKey = ""

InitJoined == JoinedAs(TRUE)

NextBoard ==
    \/ ToggleWhiteboard
    \/ \E t \in Tools : SelectTool(t)
    \/ PointerDown
    \/ PointerMove
    \/ PointerUp
    \/ TypeText
    \/ TextComplete
    \/ PasteImage
    \/ UploadImage
    \/ ClearBoard
    \/ KeyUndo
    \/ KeyRedo
    \/ Resize
    \/ \E query \in QueryTexts : QuerySubmit(query)
    \/ ContextQueryTimer

\* ------------------------------------------- Audio capture for the AI
\* The Classroom variant whose "Video Capture Logic for AI" effect starts the
\* microphone stream towards the live session.

\* The effect's dependency list [stream, connectionState, activeTool, isAIActive].
CaptureDeps(c, tool) == <<c.stream, c.connectionState, tool, c.isAIActive>>

\* The effect's body, as far as the service goes (serviceRef.current is set,
\* the tab has a key).
CaptureEffect(c, s) ==
    IF c.connectionState = "CONNECTED" /\ c.isAIActive /\ c.stream
    THEN startAudioStream(s)
    ELSE s

\* The effect runs after a render whose dependencies differ from the last one's.
AfterRender(c0, tool0, c1, tool1, s) ==
    IF CaptureDeps(c0, tool0) # CaptureDeps(c1, tool1) THEN CaptureEffect(c1, s) ELSE s

\* The input processors whose onaudioprocess sends chunks to the session.
SendingProcessors(s) == IF s.isConnected /\ s.sessionPromise THEN s.liveProcessors ELSE 0

\* The Settings checkbox.  The render with the new isAIActive runs the
\* activation effect and then the capture effect, both seeing that render's
\* connectionState; the status the activation effect reported gives one more
\* render and, if it changed a dependency, one more run of the capture effect.
CapToggleAI ==
    /\ app.inCall /\ cls.isSettingsOpen
    /\ hasApiKey(activeApiKey(envApiKey, app.userApiKey))
    /\ cls.isAIActive \/ svc.isConnected \/ svc.sessions < MaxSessions
    /\ LET apiKey == activeApiKey(envApiKey, app.userApiKey)
           r1 == [cls EXCEPT !.isAIActive = ~@]
           s1 == AIActivationService(r1, svc, apiKey)
           s2 == AfterRender(cls, activeTool, r1, activeTool, s1)
           r2 == AIActivationEffect(r1, svc, apiKey)
       IN  /\ cls' = r2
           /\ svc' = AfterRender(r1, activeTool, r2, activeTool, s2)
           /\ isPrivateMode' = ForcePublic(r1.isAIActive, isPrivateMode)
    /\ svc'.liveProcessors <= MaxProcessors
    /\ UNCHANGED <<envApiKey, app, lobby, enteredKey, roomVars, unitVars, shareVars, boardVars>>
    /\ UNCHANGED <<messages, privatePending, queryTimers, privateChatLog, liveTextLog,
                   peerMessages>>

\* A Classroom state change followed by its render and the capture effect.
CapRender(c, s) ==
    /\ cls' = c
    /\ svc' = AfterRender(cls, activeTool, c, activeTool', s)
    /\ svc'.liveProcessors <= MaxProcessors
    /\ board' = BoardAfterTool(activeTool, activeTool', board)
    /\ UNCHANGED <<envApiKey, app, lobby, enteredKey, roomVars, unitVars, chatVars>>

\* The live session's onopen.
CapSessionOpened ==
    /\ app.inCall /\ svc.opening > 0
    /\ UNCHANGED shareVars
    /\ CapRender([cls EXCEPT !.connectionState = "CONNECTED"], [svc EXCEPT !.opening = @ - 1])

\* audioContext.close() resolves in a disconnect().
CapAudioContextClosed ==
    /\ app.inCall /\ svc.closing > 0
    /\ UNCHANGED shareVars
    /\ CapRender([cls EXCEPT !.connectionState = "DISCONNECTED"], disconnectResumed(svc))

\* getUserMedia resolves.
CapStreamReady ==
    /\ app.inCall /\ ~cls.stream
    /\ UNCHANGED shareVars
    /\ CapRender([cls EXCEPT !.stream = TRUE, !.participants = SelfSetup(@, app.isAdmin, TRUE)],
                 svc)

\* This variant's handleToggleScreenShare, the branch taken while sharing.
CapStopSharing(nextTool) ==
    /\ screenStreamRef' = FALSE
    /\ liveScreens' = IF screenStreamRef THEN liveScreens - 1 ELSE liveScreens
    /\ activeTool' = nextTool
    /\ UNCHANGED <<pendingDisplay, sentTrack>>

CapToggleScreenShare ==
    /\ app.inCall
    /\ IF activeTool = "SCREEN_SHARE"
       THEN CapStopSharing("NONE")
       ELSE /\ pendingDisplay < MaxPendingDisplay
            /\ pendingDisplay' = pendingDisplay + 1
            /\ UNCHANGED <<activeTool, screenStreamRef, liveScreens, sentTrack>>
    /\ CapRender(cls, svc)

CapDisplayGranted ==
    /\ app.inCall /\ pendingDisplay > 0
    /\ liveScreens < MaxLiveScreens
    /\ pendingDisplay' = pendingDisplay - 1
    /\ screenStreamRef' = TRUE
    /\ liveScreens' = liveScreens + 1
    /\ activeTool' = "SCREEN_SHARE"
    /\ UNCHANGED sentTrack
    /\ CapRender(cls, svc)

CapScreenTrackEnded ==
    /\ app.inCall /\ liveScreens > 0
    /\ liveScreens' = liveScreens - 1
    /\ activeTool' = "NONE"
    /\ screenStreamRef' = FALSE
    /\ UNCHANGED <<pendingDisplay, sentTrack>>
    /\ CapRender(cls, svc)

CapToggleWhiteboard ==
    /\ app.inCall
    /\ IF activeTool = "SCREEN_SHARE"
       THEN CapStopSharing("WHITEBOARD")
       ELSE /\ activeTool' = IF activeTool = "WHITEBOARD" THEN "NONE" ELSE "WHITEBOARD"
            /\ UNCHANGED <<screenStreamRef, pendingDisplay, liveScreens, sentTrack>>
    /\ CapRender(cls, svc)

NextAudio ==
    \/ OpenSettings
    \/ CloseSettings
    \/ CapToggleAI
    \/ CapSessionOpened
    \/ CapAudioContextClosed
    \/ CapStreamReady
    \/ CapToggleScreenShare
    \/ CapDisplayGranted
    \/ CapScreenTrackEnded
    \/ CapToggleWhiteboard

\* ------------------------------------- useMediaStream and what a tab holds
\* One tab's Classroom with its useMediaStream hook, across joins and leaves.
\* A getUserMedia or getDisplayMedia request belongs to the component instance
\* that made it; orphanUserMedia and orphanDisplay count the requests of
\* instances that have been unmounted since.
PermissionError == "Could not access camera or microphone. Please check permissions."

notMediaVars == <<roomVars, appVars, shareVars, chatVars, boardVars,
                  live, roomIdIo, base64Io>>

MediaUnmounted ==
    [mounted |-> FALSE, stream |-> FALSE, isVideoEnabled |-> TRUE, isAudioEnabled |-> TRUE,
     error |-> "null", videoTrackEnabled |-> FALSE, audioTrackEnabled |-> FALSE,
     peerLive |-> FALSE, serviceConnected |-> FALSE,
     sharing |-> FALSE, screenStreamRef |-> FALSE,
     pendingUserMedia |-> 0, pendingDisplay |-> 0,
     orphanUserMedia |-> 0, orphanDisplay |-> 0,
     liveCameras |-> 0, liveScreens |-> 0, joins |-> 0]

\* initializeStream with a catch branch that also turns the camera flag off.
initializeStreamDisablesVideo(m, granted) ==
    IF granted
    THEN [m EXCEPT !.pendingUserMedia = @ - 1, !.stream = TRUE, !.error = "null",
                   !.videoTrackEnabled = TRUE, !.audioTrackEnabled = TRUE,
                   !.liveCameras = @ + 1, !.peerLive = TRUE]
    ELSE [m EXCEPT !.pendingUserMedia = @ - 1, !.error = PermissionError,
                   !.isVideoEnabled = FALSE]

\* initializeStream after its await: setStream and setError(null), or the
\* catch branch.  The render with the new stream runs the PeerJS effect,
\* which returns without a stream and creates the peer with one.
initializeStream(m, granted) ==
    IF granted
    THEN [m EXCEPT !.pendingUserMedia = @ - 1, !.stream = TRUE, !.error = "null",
                   !.videoTrackEnabled = TRUE, !.audioTrackEnabled = TRUE,
                   !.liveCameras = @ + 1, !.peerLive = TRUE]
    ELSE [m EXCEPT !.pendingUserMedia = @ - 1, !.error = PermissionError]

\* The same continuation in an instance that is no longer mounted: its state
\* setters have no effect, the stream it was given stays as it is.
initializeStreamUnmounted(m, granted) ==
    IF granted
    THEN [m EXCEPT !.orphanUserMedia = @ - 1, !.liveCameras = @ + 1]
    ELSE [m EXCEPT !.orphanUserMedia = @ - 1]

toggleVideo(m) ==
    IF m.stream
    THEN [m EXCEPT !.videoTrackEnabled = ~@, !.isVideoEnabled = ~@]
    ELSE m

toggleAudio(m) ==
    IF m.stream
    THEN [m EXCEPT !.audioTrackEnabled = ~@, !.isAudioEnabled = ~@]
    ELSE m

\* Unmount: the Classroom's cleanup (the capture interval, which this version
\* never starts, the screen stream, the service, the peer) and the hook's
\* cleanup of its stream.  A new instance starts from the initial state.
ClassroomCleanup(m) ==
    [MediaUnmounted EXCEPT
        !.joins = m.joins,
        !.liveScreens = IF m.screenStreamRef THEN m.liveScreens - 1 ELSE m.liveScreens,
        !.liveCameras = IF m.stream THEN m.liveCameras - 1 ELSE m.liveCameras,
        !.orphanUserMedia = m.orphanUserMedia + m.pendingUserMedia,
        !.orphanDisplay = m.orphanDisplay + m.pendingDisplay]

InitMedia == media = MediaUnmounted

\* App.handleJoin mounts the Classroom: initializeStream is called, and the
\* service connects when the AI is enabled.
MediaJoin(ai) ==
    /\ ~media.mounted /\ media.joins < MaxJoins
    /\ media' = [media EXCEPT !.mounted = TRUE, !.joins = @ + 1,
                              !.pendingUserMedia = 1, !.serviceConnected = ai]
    /\ UNCHANGED notMediaVars

MediaLeave ==
    /\ media.mounted
    /\ media' = ClassroomCleanup(media)
    /\ UNCHANGED notMediaVars

UserMediaSettled(granted) ==
    /\ media.pendingUserMedia > 0
    /\ media' = initializeStream(media, granted)
    /\ UNCHANGED notMediaVars

OrphanUserMediaSettled(granted) ==
    /\ media.orphanUserMedia > 0
    /\ media' = initializeStreamUnmounted(media, granted)
    /\ UNCHANGED notMediaVars

MediaToggleVideo ==
    /\ media.mounted
    /\ media' = toggleVideo(media)
    /\ UNCHANGED notMediaVars

MediaToggleAudio ==
    /\ media.mounted
    /\ media' = toggleAudio(media)
    /\ UNCHANGED notMediaVars

\* handleToggleScreenShare up to its await, or its stop branch.
MediaToggleScreenShare ==
    /\ media.mounted
    /\ IF media.sharing
       THEN media' = [media EXCEPT
                !.liveScreens = IF media.screenStreamRef THEN @ - 1 ELSE @,
                !.screenStreamRef = FALSE, !.sharing = FALSE]
       ELSE /\ media.pendingDisplay < MaxPendingDisplay
            /\ media' = [media EXCEPT !.pendingDisplay = @ + 1]
    /\ UNCHANGED notMediaVars

\* getDisplayMedia settles in the mounted instance, the stream it replaces in
\* screenStreamRef staying live, or in an instance unmounted since.
DisplaySettled(granted, left) ==
    /\ IF left THEN media.orphanDisplay > 0 ELSE media.pendingDisplay > 0
    /\ granted => media.liveScreens < MaxLiveScreens
    /\ LET m == IF left THEN [media EXCEPT !.orphanDisplay = @ - 1]
                        ELSE [media EXCEPT !.pendingDisplay = @ - 1]
       IN  media' = IF ~granted THEN m
                    ELSE IF left THEN [m EXCEPT !.liveScreens = @ + 1]
                    ELSE [m EXCEPT !.liveScreens = @ + 1, !.screenStreamRef = TRUE,
                                   !.sharing = TRUE]
    /\ UNCHANGED notMediaVars

NextMedia ==
    \/ \E ai \in BOOLEAN : MediaJoin(ai)
    \/ MediaLeave
    \/ \E granted \in BOOLEAN : UserMediaSettled(granted)
    \/ \E granted \in BOOLEAN : OrphanUserMediaSettled(granted)
    \/ MediaToggleVideo
    \/ MediaToggleAudio
    \/ MediaToggleScreenShare
    \/ \E granted, left \in BOOLEAN : DisplaySettled(granted, left)

\* ------------------------------------------------------------ roomUtils
\* Strings are sequences of one-character strings.
Base36Chars ==
    <<"0", "1", "2", "3", "4", "5", "6", "7", "8", "9", "a", "b", "c", "d", "e", "f",
      "g", "h", "i", "j", "k", "l", "m", "n", "o", "p", "q", "r", "s", "t", "u", "v",
      "w", "x", "y", "z">>

\* A value of Math.random(), in [0, 1), given by the digits of its base-36
\* fraction as Number.prototype.toString(36) prints them: none for 0, and no
\* trailing zero. The digits are taken from a sample of 0..35.
RandomValues ==
    LET Sample == {0, 10, 35}
        Fractions(n) == [1..n -> Sample]
    IN  {<<>>} \cup {f \in UNION {Fractions(n) : n \in 1..MaxDigits} : f[Len(f)] # 0}

\* Number.prototype.toString(36) of such a value.
toString36(r) ==
    IF r = <<>> THEN <<"0">> ELSE <<"0", ".">> \o [i \in 1..Len(r) |-> Base36Chars[r[i] + 1]]

\* String.prototype.substring(start, end) with 0 <= start <= end.
substring(str, start, end) == SubSeq(str, Min(start, Len(str)) + 1, Min(end, Len(str)))

segment(r) == substring(toString36(r), 2, 5)

generateRoomId(r1, r2, r3) == segment(r1) \o <<"-">> \o segment(r2) \o <<"-">> \o segment(r3)

\* The Lobby's mount effect, run once: setGeneratedRoomId(generateRoomId()).
GenerateRoomId ==
    /\ roomIdIo.random = <<>>
    /\ \E r1, r2, r3 \in RandomValues :
          roomIdIo' = [random |-> <<r1, r2, r3>>, id |-> generateRoomId(r1, r2, r3)]
    /\ UNCHANGED <<roomVars, appVars, shareVars, chatVars, boardVars, media, live,
                   base64Io>>

NextRoomId == GenerateRoomId

\* ----------------------------------------------------------- audioUtils
\* A binary string is the sequence of its code units, a base64 text the
\* sequence of its characters.
Base64Chars ==
    <<"A", "B", "C", "D", "E", "F", "G", "H", "I", "J", "K", "L", "M", "N", "O", "P",
      "Q", "R", "S", "T", "U", "V", "W", "X", "Y", "Z", "a", "b", "c", "d", "e", "f",
      "g", "h", "i", "j", "k", "l", "m", "n", "o", "p", "q", "r", "s", "t", "u", "v",
      "w", "x", "y", "z", "0", "1", "2", "3", "4", "5", "6", "7", "8", "9", "+", "/">>

\* btoa: three code units to four characters, the last group padded with "=".
btoa(binary) ==
    LET n == Len(binary)
        At(i) == IF i <= n THEN binary[i] ELSE 0
        Group(g) == At(3 * g + 1) * 65536 + At(3 * g + 2) * 256 + At(3 * g + 3)
        Sextet(g, j) == (Group(g) \div (64 ^ (3 - j))) % 64
        Char(g, j) == IF 3 * g + j > n THEN "=" ELSE Base64Chars[Sextet(g, j) + 1]
    IN  [k \in 1..(4 * ((n + 2) \div 3)) |-> Char((k - 1) \div 4, (k - 1) % 4)]

\* atob with a padding that also counts as data.
atobReadsPadding(text) ==
    LET Index(c) == IF c = "=" THEN 0 ELSE CHOOSE k \in 0..63 : Base64Chars[k + 1] = c
        Group(g) == Index(text[4 * g + 1]) * 262144 + Index(text[4 * g + 2]) * 4096
                    + Index(text[4 * g + 3]) * 64 + Index(text[4 * g + 4])
    IN  [i \in 1..((Len(text) * 6) \div 8) |->
            (Group((i - 1) \div 3) \div (256 ^ (2 - ((i - 1) % 3)))) % 256]

\* atob: the padding is dropped, every four characters give three code units
\* and a last group of two or three characters gives one or two.
atob(text) ==
    LET data == SelectSeq(text, LAMBDA c : c # "=")
        m == Len(data)
        Index(c) == CHOOSE k \in 0..63 : Base64Chars[k + 1] = c
        At(i) == IF i <= m THEN Index(data[i]) ELSE 0
        Group(g) == At(4 * g + 1) * 262144 + At(4 * g + 2) * 4096
                    + At(4 * g + 3) * 64 + At(4 * g + 4)
    IN  [i \in 1..((m * 6) \div 8) |->
            (Group((i - 1) \div 3) \div (256 ^ (2 - ((i - 1) % 3)))) % 256]

\* String.fromCharCode of each byte, then btoa.
bytesToBase64(bytes) == btoa([i \in 1..Len(bytes) |-> bytes[i] % 65536])

\* atob, then charCodeAt of each character into a Uint8Array.
base64ToBytes(base64) ==
    LET binaryString == atob(base64)
    IN  [i \in 1..Len(binaryString) |-> binaryString[i] % 256]

\* The byte sequences converted: every sequence of up to MaxBytes bytes, and
\* longer ones up to MaxSampleBytes over a sample of byte values.
ByteSeqs ==
    LET Sample == {0, 1, 127, 128, 255}
    IN  UNION {[1..n -> 0..255] : n \in 0..MaxBytes}
        \cup UNION {[1..n -> Sample] : n \in (MaxBytes + 1)..MaxSampleBytes}

\* The service encodes a chunk of microphone PCM for sendRealtimeInput.
EncodeBytes ==
    /\ base64Io.stage = "idle"
    /\ \E b \in ByteSeqs :
          base64Io' = [stage |-> "encoded", bytes |-> b, base64 |-> bytesToBase64(b),
                       decoded |-> <<>>]
    /\ UNCHANGED <<roomVars, appVars, shareVars, chatVars, boardVars, media, live,
                   roomIdIo>>

\* The same text read back, as the service reads the model's audio.
DecodeBase64 ==
    /\ base64Io.stage = "encoded"
    /\ base64Io' = [base64Io EXCEPT !.stage = "decoded",
                                    !.decoded = base64ToBytes(base64Io.base64)]
    /\ UNCHANGED <<roomVars, appVars, shareVars, chatVars, boardVars, media, live,
                   roomIdIo>>

NextBase64 ==
    \/ EncodeBytes
    \/ DecodeBase64

\* ------------------------------------------- The live service on its own
\* GeminiLiveService under any sequence of calls and session callbacks.
\* disconnect() does not close the session, which stays open until the server
\* ends it.
notLiveVars == <<roomVars, shareVars, chatVars, boardVars, media, roomIdIo, base64Io,
                 envApiKey, app, lobby, cls, enteredKey>>

LiveConnect ==
    /\ svc.isConnected \/ svc.sessions < MaxSessions
    /\ svc' = connect(svc)
    /\ live' = [live EXCEPT !.lastStatus = SetStatus(@, connectStatus(svc))]
    /\ UNCHANGED notLiveVars

\* disconnect() up to its await, or to its end without an audio context.
LiveDisconnect ==
    /\ svc.closing < MaxClosing
    /\ svc' = disconnect(svc)
    /\ live' = [live EXCEPT !.lastStatus = SetStatus(@, disconnectStatus(svc))]
    /\ UNCHANGED notLiveVars

\* audioContext.close() resolves and disconnect() runs to its end.
LiveContextClosed ==
    /\ svc.closing > 0
    /\ svc' = disconnectResumed(svc)
    /\ live' = [live EXCEPT !.lastStatus = "DISCONNECTED"]
    /\ UNCHANGED notLiveVars

\* onopen of a session.
LiveOpened ==
    /\ svc.opening > 0
    /\ svc' = [svc EXCEPT !.opening = @ - 1]
    /\ live' = [live EXCEPT !.lastStatus = "CONNECTED", !.open = @ + 1]
    /\ UNCHANGED notLiveVars

\* onerror of a session that is opening or open.
LiveError(opened) ==
    /\ IF opened THEN live.open > 0 ELSE svc.opening > 0
    /\ svc' = IF opened THEN svc ELSE [svc EXCEPT !.opening = @ - 1]
    /\ live' = [live EXCEPT !.lastStatus = "ERROR", !.failed = @ + 1, !.ended = @ + 1,
                            !.open = IF opened THEN @ - 1 ELSE @]
    /\ UNCHANGED notLiveVars

\* onclose of a session that was open or has failed.
LiveClosed(failed) ==
    /\ IF failed THEN live.failed > 0 ELSE live.open > 0
    /\ live' = [live EXCEPT !.lastStatus = "DISCONNECTED", !.ended = @ + 1,
                            !.failed = IF failed THEN @ - 1 ELSE @,
                            !.open = IF failed THEN @ ELSE @ - 1]
    /\ UNCHANGED <<svc, notLiveVars>>

NextLive ==
    \/ LiveConnect
    \/ LiveDisconnect
    \/ LiveContextClosed
    \/ LiveOpened
    \/ \E opened \in BOOLEAN : LiveError(opened)
    \/ \E failed \in BOOLEAN : LiveClosed(failed)

\* The units at rest.
InitUnits ==
    /\ InitMedia
    /\ live = [lastStatus |-> "", open |-> 0, failed |-> 0, ended |-> 0]
    /\ roomIdIo = [random |-> <<>>, id |-> <<>>]
    /\ base64Io = [stage |-> "idle", bytes |-> <<>>, base64 |-> <<>>, decoded |-> <<>>]

Init == InitRoom /\ InitApp /\ InitShare /\ InitChat /\ InitBoard /\ InitUnits

SpecRoom == Init /\ [][NextRoom]_vars

SpecApp == Init /\ [][NextApp]_vars

SpecShare == Init /\ [][NextShare]_vars

\* A joined tab, nothing said yet.
InitInCall == InitRoom /\ InitJoined /\ InitShare /\ InitChat /\ InitBoard /\ InitUnits

SpecChat == InitInCall /\ [][NextChat]_vars

\* A tab joined as host or as guest.
InitInCallAny ==
    /\ InitRoom /\ InitShare /\ InitChat /\ InitBoard /\ InitUnits
    /\ \E admin \in BOOLEAN : JoinedAs(admin)

SpecBoard == InitInCallAny /\ [][NextBoard]_vars

SpecAudio == InitInCall /\ [][NextAudio]_vars

SpecMedia == Init /\ [][NextMedia]_vars

SpecRoomId == Init /\ [][NextRoomId]_vars

SpecBase64 == Init /\ [][NextBase64]_vars

SpecLive == Init /\ [][NextLive]_vars

\* The chat with every step that can happen happening in the end.
FairSpecChat == SpecChat /\ WF_vars(NextChat)

\* C2: the AI participant is optional and unique: at most one entry with role
\* 'ai'; after the activation effect exactly one, with id 'ai-prof', if
\* isAIActive and an API key is present, and none otherwise.
C2_AiOptionalUnique ==
    app.inCall =>
        /\ CountRole(cls.participants, "ai") <= 1
        /\ IF cls.isAIActive /\ Truthy(activeApiKey(envApiKey, app.userApiKey))
           THEN CountRole(cls.participants, "ai") = 1 /\ CountId(cls.participants, AiProfId) = 1
           ELSE CountRole(cls.participants, "ai") = 0

\* The AI is listed next to a peer and the re-created self entry.
C2_Witness ==
    /\ app.inCall /\ cls.isAIActive /\ cls.stream
    /\ CountRole(cls.participants, "ai") = 1
    /\ Len(cls.participants) >= 3

\* C3: without an environment key and with an empty or whitespace-only key
\* entered in the lobby, isAIActive is false in the classroom and stays false.
C3_NoKeyNoAI ==
    (app.inCall /\ ~Truthy(envApiKey) /\ ~Truthy(Trim(enteredKey))) => ~cls.isAIActive

\* A public message with this text stands in the tab's list.
SaidInPublic(text) ==
    \E i \in DOMAIN messages : messages[i] = ChatMessage("user", text, FALSE)

ShownTo(g, text) == \E i \in DOMAIN peerMessages[g] : peerMessages[g][i].text = text

\* C6: a message sent in public mode eventually appears in the message list
\* of every other participant of the call.
C6_PublicReachesAll ==
    \A text \in PublicTexts : SaidInPublic(text) ~> (\A g \in Guests : ShownTo(g, text))

IsPrivateText(text) == text \in PrivateTexts \cup PrivateReplies

\* Nothing typed in private mode, and no reply to it, is in the live session's
\* or a peer's hands, or stored as public.
PrivateKept ==
    /\ privateChatLog \subseteq PrivateTexts
    /\ \A i \in DOMAIN liveTextLog : ~IsPrivateText(liveTextLog[i])
    /\ \A g \in Guests : \A i \in DOMAIN peerMessages[g] : ~IsPrivateText(peerMessages[g][i].text)
    /\ \A i \in DOMAIN messages : IsPrivateText(messages[i].text) => messages[i].isPrivate

\* A step of a private exchange: a private send, its reply or its failure.
PrivateStep ==
    \/ privateChatLog' # privateChatLog
    \/ privatePending' # privatePending
    \/ /\ Len(messages') = Len(messages) + 1
       /\ messages'[Len(messages')].isPrivate

\* C7: a private message's text goes to the private chat session only, never
\* to the live session or a peer; it and its replies are stored with isPrivate
\* true; and the steps of a private exchange leave the traffic to the live
\* session and to peers, and all they depend on, as they were.
C7_PrivateStaysPrivate ==
    /\ []PrivateKept
    /\ [][PrivateStep => UNCHANGED <<liveTextLog, peerMessages, queryTimers, svc, cls,
                                     isPrivateMode>>]_vars

\* A private question has been asked and answered while the live session is
\* connected and has been sent a pointed question.
C7_Witness ==
    /\ "secret" \in privateChatLog
    /\ \E i \in DOMAIN messages : messages[i] = ChatMessage("ai", "answer", TRUE)
    /\ \E i \in DOMAIN messages : messages[i] = ChatMessage("user", "secret", TRUE)
    /\ svc.isConnected
    /\ liveTextLog # <<>>

\* C8: while canDraw is false no user action on the whiteboard (pointer, text,
\* paste, upload, clear, Ctrl+Z, Ctrl+Shift+Z) changes the canvas content or
\* the undo history.  Changes of the container's size are no such action.
C8_ReadOnlyBoard ==
    [][(board.mounted /\ board'.mounted /\ ~canDraw /\ board'.resizes = board.resizes) =>
            /\ board'.canvas = board.canvas
            /\ board'.history = board.history
            /\ board'.historyStep = board.historyStep]_vars

\* The part of C8 about what is on the canvas and in the list of snapshots.
ReadOnlyCanvas ==
    [][(board.mounted /\ board'.mounted /\ ~canDraw /\ board'.resizes = board.resizes) =>
            /\ board'.canvas = board.canvas
            /\ board'.history = board.history]_vars

\* C10: while the AI is active, the live session is CONNECTED and the tab has
\* its microphone stream, exactly one input processor is sending audio chunks
\* to the session.
C10_OneProcessorSending ==
    (cls.isAIActive /\ cls.connectionState = "CONNECTED" /\ cls.stream) =>
        SendingProcessors(svc) = 1

\* The halves of C10.
AtLeastOneProcessor ==
    (cls.isAIActive /\ cls.connectionState = "CONNECTED" /\ cls.stream) =>
        SendingProcessors(svc) >= 1

AtMostOneProcessor == SendingProcessors(svc) <= 1

\* C11: a failed getUserMedia is reported as a value and changes nothing
\* else: error becomes the permission message, stream stays null,
\* isVideoEnabled and isAudioEnabled keep their values, toggleVideo and
\* toggleAudio without a stream change nothing, and no peer exists without a
\* stream; a successful acquisition leaves error null.
C11_StreamFailureIsAValue ==
    /\ [][/\ UserMediaSettled(FALSE) =>
                /\ media'.error = PermissionError
                /\ ~media'.stream
                /\ [media' EXCEPT !.error = "null", !.pendingUserMedia = 0]
                     = [media EXCEPT !.error = "null", !.pendingUserMedia = 0]
          /\ UserMediaSettled(TRUE) => media'.stream /\ media'.error = "null"
          /\ ((MediaToggleVideo \/ MediaToggleAudio) /\ ~media.stream) => media' = media
       ]_vars
    /\ [](~media.stream => ~media.peerLive)

\* C11 witness: the mounted Classroom after getUserMedia was refused.
C11_Witness ==
    /\ media.mounted /\ media.error = PermissionError
    /\ ~media.stream /\ ~media.peerLive /\ media.pendingUserMedia = 0

\* C16: once the Classroom is unmounted no camera or screen stream of the tab
\* is live, the service is disconnected and the peer is destroyed, whatever
\* requests were pending when the user left.
C16_NothingLeftActive ==
    ~media.mounted =>
        /\ media.liveCameras = 0 /\ media.liveScreens = 0
        /\ ~media.peerLive /\ ~media.serviceConnected

\* C12: the id generateRoomId returns has the format 'abc-defg-hij': three
\* segments of lowercase base-36 characters of lengths 3, 4 and 3, separated
\* by single hyphens.
C12_RoomIdFormat ==
    LET id == roomIdIo.id
        IsBase36(c) == \E k \in 1..36 : Base36Chars[k] = c
    IN  roomIdIo.random # <<>> =>
            /\ Len(id) = 12
            /\ id[4] = "-" /\ id[9] = "-"
            /\ \A i \in (1..12) \ {4, 9} : IsBase36(id[i])

\* What the code does keep: two hyphens in every id it returns.
RoomIdHasTwoHyphens ==
    roomIdIo.random # <<>> =>
        Cardinality({i \in 1..Len(roomIdIo.id) : roomIdIo.id[i] = "-"}) = 2

\* Every segment three characters long, false for short fractions.
RoomIdSegmentsOfThree ==
    roomIdIo.random # <<>> =>
        /\ Len(roomIdIo.id) = 11
        /\ roomIdIo.id[4] = "-" /\ roomIdIo.id[8] = "-"

\* C13: base64 conversion round-trips: base64ToBytes(bytesToBase64(b)) has
\* the length and the content of b, for the empty sequence and for every
\* byte value.
C13_Base64RoundTrip ==
    base64Io.stage = "decoded" =>
        /\ Len(base64Io.decoded) = Len(base64Io.bytes)
        /\ base64Io.decoded = base64Io.bytes

\* C13 witness: a padded text read back to two bytes, the first of them 255.
C13_Witness ==
    /\ base64Io.stage = "decoded"
    /\ Len(base64Io.bytes) = 2 /\ base64Io.bytes[1] = 255
    /\ base64Io.base64[4] = "="
    /\ base64Io.decoded = base64Io.bytes

\* C14: a disconnect() in progress does not damage a later connect(): with
\* connect() the last call made, every disconnect() run to its end and no
\* session closed or failed by the server, the service is connected, holds an
\* audio context, and the last status it reported is not DISCONNECTED.
C14_DisconnectSparesConnect ==
    (svc.isConnected /\ svc.closing = 0 /\ live.ended = 0) =>
        /\ svc.audioContext
        /\ live.lastStatus # "DISCONNECTED"

\* C15: isConnected agrees with the last status: after DISCONNECTED or ERROR
\* the flag is false, and the next connect() opens a new session and reports
\* CONNECTING.
C15_FlagAgreesWithStatus ==
    live.lastStatus \in {"DISCONNECTED", "ERROR"} =>
        /\ ~svc.isConnected
        /\ connect(svc).sessions = svc.sessions + 1
        /\ connectStatus(svc) = "CONNECTING"

====
